---- MODULE Spec2Model ----
(***************************************************************************)
(* Model of the Hyperion LP rebalancer (src/index.ts).                     *)
(*                                                                         *)
(* The program is a single asynchronous loop (main) that polls the owner's *)
(* positions and, for each out-of-range position with liquidity, runs      *)
(* rebalance: withdraw -> planLiquidity -> swap -> planLiquidity ->        *)
(* deposit.  Every `await` of the source is one step of the model; the     *)
(* answers of the SDK (position source, ratio estimator, swap quote,       *)
(* transaction service) are nondeterministic inputs.                       *)
(***************************************************************************)
EXTENDS Integers, Sequences, FiniteSets, TLC

(***************************************************************************)
(* Bounds of the model.                                                    *)
(***************************************************************************)
MaxAmt == 2          \* token amounts answered by the SDK lie in 0..MaxAmt
MaxTick == 12        \* ticks of the range-calculator inputs lie in -MaxTick..MaxTick
MaxHalfWidth == 2    \* half widths of the range-calculator inputs lie in 0..MaxHalfWidth
MaxPositions == 3    \* the venue holds at most this many positions

(***************************************************************************)
(* Program constants.                                                      *)
(***************************************************************************)
TICK_HALF_WIDTH == 10                     \* default of TICK_HALF_WIDTH
TARGET_POOL_ID == "0x1609"                \* default of POOL_ID (abbreviated)
SlippageBasisPoints == 10                 \* default of SLIPPAGE_PERCENT, 0.1 %

Amounts == 0 .. MaxAmt
Routes == {"viaHop"}    \* the route a quote answers; the program passes it on unread

(***************************************************************************)
(* String.prototype.toLowerCase on the pool identifiers the model uses.    *)
(***************************************************************************)
PoolIds == {"0X1609", "0xbeef"}
toLowerCase(s) == IF s = "0X1609" THEN "0x1609" ELSE s

(***************************************************************************)
(* FeeTierStep of the SDK, indexed by fee tier 0..5; an index outside the  *)
(* table falls back to 1 (`FeeTierStep[feeTierIndex] ?? 1`).  The table is *)
(* imported from @hyperionxyz/sdk; the program relies only on its entries  *)
(* being positive integers.                                                *)
(***************************************************************************)
FeeTierStep == <<1, 10, 60, 200, 20, 50>>
FeeTierIndexes == 0 .. 6
tickSpacing(feeTierIndex) ==
  IF feeTierIndex + 1 \in DOMAIN FeeTierStep THEN FeeTierStep[feeTierIndex + 1] ELSE 1

(***************************************************************************)
(* computeTickRange.  Math.floor(currentTick / spacing) is the floor       *)
(* division \div of TLA+ (rounds towards minus infinity).                  *)
(***************************************************************************)
roundedTick(currentTick, feeTierIndex) ==
  (currentTick \div tickSpacing(feeTierIndex)) * tickSpacing(feeTierIndex)

computeTickRangeNoSnap(currentTick, feeTierIndex, halfWidth) ==
  LET spacing == tickSpacing(feeTierIndex)
      lower   == currentTick - halfWidth * spacing
      upper   == currentTick + halfWidth * spacing
  IN  IF lower = upper
        THEN [lower |-> currentTick - spacing, upper |-> currentTick + spacing]
        ELSE [lower |-> lower, upper |-> upper]

computeTickRangeNoGuard(currentTick, feeTierIndex, halfWidth) ==
  [lower |-> roundedTick(currentTick, feeTierIndex)
               - halfWidth * tickSpacing(feeTierIndex),
   upper |-> roundedTick(currentTick, feeTierIndex)
               + halfWidth * tickSpacing(feeTierIndex)]

computeTickRangeUnscaled(currentTick, feeTierIndex, halfWidth) ==
  LET spacing == tickSpacing(feeTierIndex)
      rounded == roundedTick(currentTick, feeTierIndex)
      lower   == rounded - halfWidth
      upper   == rounded + halfWidth
  IN  IF lower = upper
        THEN [lower |-> rounded - spacing, upper |-> rounded + spacing]
        ELSE [lower |-> lower, upper |-> upper]

computeTickRange(currentTick, feeTierIndex, halfWidth) ==
  LET spacing == tickSpacing(feeTierIndex)
      rounded == roundedTick(currentTick, feeTierIndex)
      lower   == rounded - halfWidth * spacing
      upper   == rounded + halfWidth * spacing
  IN  IF lower = upper
        THEN [lower |-> rounded - spacing, upper |-> rounded + spacing]
        ELSE [lower |-> lower, upper |-> upper]

(***************************************************************************)
(* isOutOfRange(position, pool).                                           *)
(***************************************************************************)
isOutOfRangeStrict(position, pool) ==
  \/ pool.currentTick < position.position.tickLower
  \/ pool.currentTick > position.position.tickUpper

isOutOfRange(position, pool) ==
  \/ pool.currentTick <= position.position.tickLower
  \/ pool.currentTick >= position.position.tickUpper

(***************************************************************************)
(* planLiquidity (lines 145-237).  The function awaits up to four SDK      *)
(* calls in sequence; each await is one step.  The frame of a call:        *)
(*   availableA, availableB, allowSwap   the arguments                     *)
(*   at        the SDK call awaited: "estB1" estCurrencyBAmountFromA of    *)
(*             line 171, "quote" estFromAmount of line 185, "estB2"        *)
(*             estCurrencyBAmountFromA of line 205, "estA"                 *)
(*             estCurrencyAAmountFromB of line 219; "done" once the        *)
(*             function has returned or thrown                             *)
(*   called    the function has returned or thrown                         *)
(*   result    status ("none" while running, then "ok" / "insufficient" /  *)
(*             "serviceError"), swapPlan, depositA, depositB, workingA,    *)
(*             workingB, and the calls made so far, each with its amount   *)
(*   ans       what the SDK answered so far: estB1, (amountIn, amountOut,  *)
(*             path), estB2, estA, and failAt, the call that rejected      *)
(***************************************************************************)
FailPoints == {"none", "estB1", "quote", "estB2", "estA"}

NoAns == [estB1 |-> 0, amountIn |-> 0, amountOut |-> 0, path |-> "direct",
          estB2 |-> 0, estA |-> 0, failAt |-> "none"]

NoSwapPlan == [present |-> FALSE, amountIn |-> 0, expectedOut |-> 0, path |-> "none"]

PlanThrow(status, calls) ==
  [status |-> status, swapPlan |-> NoSwapPlan, depositA |-> 0, depositB |-> 0,
   workingA |-> 0, workingB |-> 0, calls |-> calls]

NoPlan == PlanThrow("none", << >>)

\* the value planLiquidity returns (lines 232-236)
Returned(result) ==
  [swapPlan |-> result.swapPlan, depositA |-> result.depositA,
   depositB |-> result.depositB]
NoReturn == Returned(NoPlan)

Call(svc, amount) == [svc |-> svc, amount |-> amount]

\* lines 145-179: the call; the working balances are the available ones and
\* the first estimate is asked for
planLiquidity(availableA, availableB, allowSwap) ==
  [availableA |-> availableA, availableB |-> availableB, allowSwap |-> allowSwap,
   called |-> FALSE, at |-> "estB1", ans |-> NoAns,
   result |-> [NoPlan EXCEPT !.workingA = availableA, !.workingB = availableB,
                             !.calls = << Call("estBFromA", availableA) >>]]

\* the awaited SDK call rejects: planLiquidity throws what the SDK threw
rejected(frame) ==
  [frame EXCEPT !.called = TRUE, !.at = "done", !.ans.failAt = frame.at,
                !.result = PlanThrow("serviceError", frame.result.calls)]

\* the guard of line 193
insufficientBalanceStrict(amountIn, workingA) == amountIn > workingA
insufficientBalanceNonZero(amountIn, workingA) == amountIn > 0 /\ amountIn >= workingA
insufficientBalance(amountIn, workingA) == amountIn >= workingA

\* the condition of line 183
needsSwapAlways(allowSwap, requiredB, workingB) == requiredB > workingB
needsSwap(allowSwap, requiredB, workingB) == allowSwap /\ requiredB > workingB

\* lines 181-190 and 205: the first estimate is answered; either the quote
\* for the shortfall or the re-estimate is asked for
estimateFromA(frame, requiredB) ==
  LET answered == [frame EXCEPT !.ans.estB1 = requiredB]
  IN  IF needsSwap(frame.allowSwap, requiredB, frame.result.workingB)
        THEN [answered EXCEPT
                !.at = "quote",
                !.result.calls =
                   Append(@, Call("quote", requiredB - frame.result.workingB))]
        ELSE [answered EXCEPT
                !.at = "estB2",
                !.result.calls = Append(@, Call("estBFromA", frame.result.workingA))]

\* lines 191-213: the quote is answered; the guard, the swap plan, the
\* working balances, and the re-estimate is asked for
quote(frame, amountIn, amountOut, path) ==
  LET answered == [frame EXCEPT !.ans.amountIn = amountIn,
                                !.ans.amountOut = amountOut, !.ans.path = path]
  IN  IF insufficientBalance(amountIn, frame.result.workingA)
        THEN [answered EXCEPT
                !.called = TRUE, !.at = "done",
                !.result = PlanThrow("insufficient", frame.result.calls)]
        ELSE [answered EXCEPT
                !.at = "estB2",
                !.result.swapPlan = [present |-> TRUE, amountIn |-> amountIn,
                                     expectedOut |-> amountOut, path |-> path],
                !.result.workingA = @ - amountIn,
                !.result.workingB = @ + amountOut,
                !.result.calls =
                   Append(@, Call("estBFromA", frame.result.workingA - amountIn))]

postSwapEstimateCapAtEqual(frame, depositB) ==
  LET answered == [frame EXCEPT !.ans.estB2 = depositB,
                                !.result.depositA = frame.result.workingA,
                                !.result.depositB = depositB]
  IN  IF depositB >= frame.result.workingB
        THEN [answered EXCEPT
                !.at = "estA",
                !.result.calls = Append(@, Call("estAFromB", frame.result.workingB))]
        ELSE [answered EXCEPT !.called = TRUE, !.at = "done", !.result.status = "ok"]

\* lines 215-227 and 232-236: the re-estimate is answered; the plan is
\* (workingA, estimate) unless the estimate exceeds workingB, and then the
\* reverse estimate is asked for
postSwapEstimate(frame, depositB) ==
  LET answered == [frame EXCEPT !.ans.estB2 = depositB,
                                !.result.depositA = frame.result.workingA,
                                !.result.depositB = depositB]
  IN  IF depositB > frame.result.workingB
        THEN [answered EXCEPT
                !.at = "estA",
                !.result.calls = Append(@, Call("estAFromB", frame.result.workingB))]
        ELSE [answered EXCEPT !.called = TRUE, !.at = "done", !.result.status = "ok"]

\* lines 228-236: the reverse estimate is answered; the plan is
\* (estimate, workingB)
adjust(frame, depositA) ==
  [frame EXCEPT !.ans.estA = depositA,
                !.called = TRUE, !.at = "done", !.result.status = "ok",
                !.result.depositA = depositA,
                !.result.depositB = frame.result.workingB]

\* what the SDK can do to the call awaited: reject it, or answer it with an
\* amount (an estimate) or with amountIn, amountOut and a route (a quote)
Responses(at) ==
  [answered : {FALSE}, amount : {0}, amountOut : {0}, path : {"none"}]
    \cup
  IF at = "quote"
    THEN [answered : {TRUE}, amount : Amounts, amountOut : Amounts, path : Routes]
    ELSE [answered : {TRUE}, amount : Amounts, amountOut : {0}, path : {"none"}]

\* the awaited call of the frame resolves or rejects
planStep(frame, response) ==
  IF ~response.answered THEN rejected(frame)
  ELSE CASE frame.at = "estB1" -> estimateFromA(frame, response.amount)
         [] frame.at = "quote" -> quote(frame, response.amount, response.amountOut,
                                        response.path)
         [] frame.at = "estB2" -> postSwapEstimate(frame, response.amount)
         [] OTHER              -> adjust(frame, response.amount)

(***************************************************************************)
(* State.                                                                  *)
(*   poolTick, positions   the venue: the pool's price tick and the        *)
(*                         owner's positions (objectId = index)            *)
(*   inflight              transactions submitted whose confirmation       *)
(*                         submitTransaction is waiting for                *)
(*   orphaned              a transaction whose wait timed out is still     *)
(*                         pending at the venue (one or more of them)      *)
(*   pc                    where main / rebalance / submitTransaction is   *)
(*   snapshot, idx         `positions` and the loop position of main       *)
(*   rb                    the locals of rebalance, and with them what the *)
(*                         confirmed swap of this rebalance paid out       *)
(*   tx                    the transaction submitTransaction works on      *)
(*   txs                   per kind, how far this rebalance's transaction  *)
(*                         got: none / submitted / confirmed / failed      *)
(*   cycleFailed           the catch block of this cycle has run           *)
(*   evaluated             objectIds isOutOfRange was applied to this cycle*)
(*   settled               ids: the objectIds, old position and the one    *)
(*                         its deposit opened, of the rebalances that      *)
(*                         ended in a confirmed deposit since the pool     *)
(*                         tick last changed; past: one of them did so in  *)
(*                         an earlier cycle                                *)
(*   stranded              objectIds whose withdrawal was confirmed and    *)
(*                         whose rebalance then threw                      *)
(*   pl                    the frame of the planLiquidity call in progress *)
(*   rg                    inputs and result of a stand-alone call of      *)
(*                         computeTickRange / isOutOfRange                 *)
(***************************************************************************)
VARIABLES poolTick, positions, inflight, orphaned, pc, snapshot, idx, rb, tx,
          txs, cycleFailed, evaluated, stranded, settled, pl, rg

vars == <<poolTick, positions, inflight, orphaned, pc, snapshot, idx, rb, tx,
          txs, cycleFailed, evaluated, stranded, settled, pl, rg>>
venueVars == <<poolTick, positions, inflight, orphaned>>
loopVars == <<pc, snapshot, idx, rb, tx, txs, cycleFailed, evaluated, stranded,
              settled>>

PoolTicks == {500, 615}
PoolFeeTier == {1}
Liquidities == {0, 7}
NoPoolChoices == SUBSET {1}      \* positions the indexer may return without pool data

NoTx == [kind |-> "none", positionId |-> 0, amountA |-> 0, amountB |-> 0,
         deltaLiquidity |-> 0, path |-> "none", tickLower |-> 0, tickUpper |-> 0,
         recipient |-> "none"]
NoTxs == [withdraw |-> "none", swap |-> "none", deposit |-> "none"]
NoPosition == [objectId |-> 0, poolId |-> "none", currentAmount |-> 0,
               position |-> [tickLower |-> 0, tickUpper |-> 0], pool |-> << >>]
NoRb == [active |-> FALSE, position |-> NoPosition, feeTierIndex |-> 0,
         currentTick |-> 0, targetLower |-> 0, targetUpper |-> 0,
         availableA |-> 0, availableB |-> 0, deltaLiquidity |-> 0,
         plans |-> 0, initialPlan |-> NoReturn, plan |-> NoReturn,
         postSwapA |-> 0, postSwapB |-> 0, delivered |-> 0]
NoSettled == [ids |-> {}, past |-> FALSE]
NoPl == [availableA |-> 0, availableB |-> 0, allowSwap |-> FALSE, called |-> FALSE,
         at |-> "estB1", ans |-> NoAns, result |-> NoPlan]
NoRg == [currentTick |-> 0, feeTierIndex |-> 0, halfWidth |-> 0, calls |-> 0,
         first |-> [lower |-> 0, upper |-> 0], last |-> [lower |-> 0, upper |-> 0],
         tickLower |-> 0, tickUpper |-> 0, checked |-> FALSE, outOfRange |-> FALSE]

VenuePosition(id, poolId, liquidity, range) ==
  [objectId |-> id, poolId |-> poolId, currentAmount |-> liquidity,
   tickLower |-> range[1], tickUpper |-> range[2]]

LoopIdle ==
  /\ inflight = 0 /\ orphaned = FALSE
  /\ pc = "fetch" /\ snapshot = << >> /\ idx = 0 /\ rb = NoRb /\ tx = NoTx
  /\ txs = NoTxs /\ cycleFailed = FALSE /\ evaluated = {} /\ stranded = {}
  /\ settled = NoSettled

Init ==
  /\ poolTick \in PoolTicks
  /\ \E p1 \in PoolIds, l1 \in Liquidities :
       positions = << VenuePosition(1, p1, l1, <<450, 480>>),
                      VenuePosition(2, TARGET_POOL_ID, 7, <<400, 600>>) >>
  /\ LoopIdle
  /\ pl = NoPl
  /\ rg = NoRg

(***************************************************************************)
(* The catch block of main (lines 358-361): log, then fall through to the  *)
(* sleep at the end of the loop body.                                      *)
(***************************************************************************)
CatchRethrow == "exited"
CatchPerPosition == "loop"
Catch == "sleep"

\* a throw inside the try block: the frames of rebalance and
\* submitTransaction are dropped and control goes to the catch block
Throw ==
  /\ pc' = Catch
  /\ cycleFailed' = TRUE
  /\ rb' = NoRb
  /\ tx' = NoTx
  /\ stranded' = IF rb.active /\ txs.withdraw = "confirmed"
                   THEN stranded \cup {rb.position.objectId} ELSE stranded
  /\ settled' = settled

(***************************************************************************)
(* fetchPositions (lines 128-135), called at line 345.                     *)
(***************************************************************************)
IndexedPosition(p, withPool, tick, feeTier) ==
  [objectId |-> p.objectId, poolId |-> p.poolId, currentAmount |-> p.currentAmount,
   position |-> [tickLower |-> p.tickLower, tickUpper |-> p.tickUpper],
   pool |-> IF withPool THEN << [currentTick |-> tick, feeTier |-> feeTier] >>
            ELSE << >>]

inTargetPool(position) == toLowerCase(position.poolId) = toLowerCase(TARGET_POOL_ID)

FetchPositions ==
  /\ pc = "fetch"
  /\ \/ /\ \E noPool \in NoPoolChoices, feeTier \in PoolFeeTier :
             snapshot' = SelectSeq(
               [i \in 1 .. Len(positions) |->
                  IndexedPosition(positions[i], i \notin noPool, poolTick, feeTier)],
               inTargetPool)
        /\ idx' = 1
        /\ pc' = "loop"
        /\ UNCHANGED <<rb, tx, cycleFailed, stranded, settled>>
     \/ /\ Throw
        /\ UNCHANGED <<snapshot, idx>>
  /\ UNCHANGED <<poolTick, positions, inflight, orphaned, txs, evaluated, pl, rg>>

(***************************************************************************)
(* One iteration of the for loop of main (lines 346-357), up to the call   *)
(* of rebalance, or the end of the loop.                                   *)
(***************************************************************************)
hasLiquidityUnchecked(position) == TRUE
hasLiquidityOrEmpty(position) == position.currentAmount >= 0
hasLiquidity(position) == position.currentAmount # 0

LoopStep ==
  /\ pc = "loop"
  /\ IF idx > Len(snapshot)
       THEN /\ pc' = "sleep"
            /\ UNCHANGED <<idx, evaluated>>
       ELSE LET position == snapshot[idx] IN
            IF position.pool = << >> \/ ~hasLiquidity(position)
              THEN /\ idx' = idx + 1
                   /\ UNCHANGED <<pc, evaluated>>
              ELSE /\ evaluated' = evaluated \cup {position.objectId}
                   /\ IF isOutOfRange(position, position.pool[1])
                        THEN pc' = "rebalance" /\ idx' = idx
                        ELSE pc' = pc /\ idx' = idx + 1
  /\ rb' = NoRb /\ tx' = NoTx /\ txs' = NoTxs
  /\ UNCHANGED <<venueVars, snapshot, cycleFailed, stranded, settled, pl, rg>>

(***************************************************************************)
(* rebalance, lines 240-280: the target range, the withdrawable amounts    *)
(* (fetchTokensAmountByPositionId) and the decision to withdraw.           *)
(***************************************************************************)
shouldWithdrawBoth(deltaLiquidity, availableA, availableB) ==
  deltaLiquidity > 0 /\ (availableA > 0 /\ availableB > 0)

shouldWithdraw(deltaLiquidity, availableA, availableB) ==
  deltaLiquidity > 0 /\ (availableA > 0 \/ availableB > 0)

WithdrawTx(r) ==
  [NoTx EXCEPT !.kind = "withdraw", !.positionId = r.position.objectId,
               !.amountA = r.availableA, !.amountB = r.availableB,
               !.deltaLiquidity = r.deltaLiquidity, !.recipient = "owner"]

SwapTxWholeBalance(r, swapPlan) ==
  [NoTx EXCEPT !.kind = "swap", !.positionId = r.position.objectId,
               !.amountA = r.availableA, !.amountB = swapPlan.expectedOut,
               !.path = swapPlan.path, !.recipient = "owner"]

SwapTx(r, swapPlan) ==
  [NoTx EXCEPT !.kind = "swap", !.positionId = r.position.objectId,
               !.amountA = swapPlan.amountIn, !.amountB = swapPlan.expectedOut,
               !.path = swapPlan.path, !.recipient = "owner"]

DepositTx(r, plan) ==
  [NoTx EXCEPT !.kind = "deposit", !.positionId = r.position.objectId,
               !.amountA = plan.depositA, !.amountB = plan.depositB,
               !.tickLower = r.targetLower, !.tickUpper = r.targetUpper]

RebalanceStart ==
  /\ pc = "rebalance"
  /\ LET position == snapshot[idx] IN
     IF position.pool = << >>
       THEN /\ pc' = "loop" /\ idx' = idx + 1
            /\ UNCHANGED <<rb, tx, cycleFailed, stranded, settled>>
       ELSE LET pool  == position.pool[1]
                range == computeTickRange(pool.currentTick, pool.feeTier, TICK_HALF_WIDTH)
            IN
            \/ /\ \E rawA, rawB \in Amounts :
                    LET r == [NoRb EXCEPT !.active = TRUE, !.position = position,
                                !.feeTierIndex = pool.feeTier,
                                !.currentTick = pool.currentTick,
                                !.targetLower = range.lower, !.targetUpper = range.upper,
                                !.availableA = rawA, !.availableB = rawB,
                                !.deltaLiquidity = position.currentAmount]
                    IN  /\ rb' = r
                        /\ IF shouldWithdraw(r.deltaLiquidity, rawA, rawB)
                             THEN tx' = WithdrawTx(r) /\ pc' = "tx_payload"
                             ELSE tx' = NoTx /\ pc' = "plan1"
               /\ UNCHANGED <<idx, cycleFailed, stranded, settled>>
            \/ /\ Throw
               /\ idx' = idx
  /\ UNCHANGED <<poolTick, positions, inflight, orphaned, snapshot, txs, evaluated, pl, rg>>

(***************************************************************************)
(* The payload builders of the SDK (lines 269, 301, 327) and               *)
(* submitTransaction (lines 111-126): build, sign and submit, wait.        *)
(***************************************************************************)
TxPayload ==
  /\ pc = "tx_payload"
  /\ \/ pc' = "tx_build" /\ UNCHANGED <<rb, tx, cycleFailed, stranded, settled>>
     \/ Throw
  /\ UNCHANGED <<poolTick, positions, inflight, orphaned, snapshot, idx, txs, evaluated, pl, rg>>

TxBuild ==
  /\ pc = "tx_build"
  /\ \/ pc' = "tx_submit" /\ UNCHANGED <<rb, tx, cycleFailed, stranded, settled>>
     \/ Throw
  /\ UNCHANGED <<poolTick, positions, inflight, orphaned, snapshot, idx, txs, evaluated, pl, rg>>

\* where rebalance goes on once submitTransaction has returned
Continue(kind) ==
  CASE kind = "withdraw" -> "plan1"
    [] kind = "swap"     -> "plan2"
    [] OTHER             -> "loop"

\* lines 119-123: after signAndSubmitTransaction the hash is awaited
afterSubmitSwapNoAwait(kind) == IF kind = "swap" THEN Continue(kind) ELSE "tx_wait"
afterSubmit(kind) == "tx_wait"

TxSubmit ==
  /\ pc = "tx_submit"
  /\ \/ /\ inflight' = inflight + 1
        /\ txs' = [txs EXCEPT ![tx.kind] = "submitted"]
        /\ pc' = afterSubmit(tx.kind)
        /\ UNCHANGED <<rb, tx, cycleFailed, stranded, settled>>
     \/ /\ Throw
        /\ UNCHANGED <<inflight, txs>>
  /\ UNCHANGED <<poolTick, positions, orphaned, snapshot, idx, evaluated, pl, rg>>

\* What a confirmed transaction does to the venue: a withdrawal removes the
\* position's whole liquidity (deltaLiquidity = currentAmount), a deposit
\* opens a new position of the target pool on the target range.
Committed(t) ==
  CASE t.kind = "withdraw" ->
         [positions EXCEPT ![t.positionId].currentAmount = 0]
    [] t.kind = "deposit" ->
         Append(positions,
                [objectId |-> Len(positions) + 1, poolId |-> TARGET_POOL_ID,
                 currentAmount |-> 7,
                 tickLower |-> t.tickLower, tickUpper |-> t.tickUpper])
    [] OTHER -> positions

\* the venue of the model holds at most MaxPositions positions: a deposit
\* beyond that is rejected on chain
VenueAccepts(t) == t.kind = "deposit" => Len(positions) < MaxPositions

\* The swap is submitted with slippage SLIPPAGE_PERCENT (0.1 percent, in
\* basis points here): the venue executes it when it pays out at least the
\* quoted amount less the tolerance, rounded down, and at most the quote.
minReceived(expectedOut) ==
  (expectedOut * (10000 - SlippageBasisPoints)) \div 10000

SwapDeliveries(t) ==
  IF t.kind = "swap" THEN minReceived(t.amountB) .. t.amountB ELSE {0}

\* waitForTransaction (line 123) either returns (the transaction is
\* committed) or rejects: the transaction failed on chain, or the wait timed
\* out.  After a timeout the transaction is still pending at the venue:
\* nothing in submitTransaction or in the catch block of main resolves it.
TxWait ==
  /\ pc = "tx_wait"
  /\ inflight' = inflight - 1
  /\ \/ /\ VenueAccepts(tx)
        /\ positions' = Committed(tx)
        /\ txs' = [txs EXCEPT ![tx.kind] = "confirmed"]
        /\ pc' = Continue(tx.kind)
        /\ idx' = IF tx.kind = "deposit" THEN idx + 1 ELSE idx
        /\ \E delivered \in SwapDeliveries(tx) :
             rb' = IF tx.kind = "swap"
                     THEN [rb EXCEPT
                             !.postSwapA = rb.availableA - rb.initialPlan.swapPlan.amountIn,
                             !.postSwapB = rb.availableB + rb.initialPlan.swapPlan.expectedOut,
                             !.delivered = delivered]
                     ELSE rb
        /\ settled' = IF tx.kind = "deposit"
                        THEN [settled EXCEPT
                                !.ids = @ \cup {tx.positionId, Len(positions) + 1}]
                        ELSE settled
        /\ UNCHANGED <<tx, cycleFailed, stranded, orphaned>>
     \/ /\ txs' = [txs EXCEPT ![tx.kind] = "failed"]
        /\ \E timedOut \in BOOLEAN : orphaned' = (orphaned \/ timedOut)
        /\ Throw
        /\ UNCHANGED <<positions, idx>>
  /\ UNCHANGED <<poolTick, snapshot, evaluated, pl, rg>>

(***************************************************************************)
(* rebalance, lines 291-338: the two calls of planLiquidity, the zero      *)
(* guard and the hand-over to the swap or the deposit.                     *)
(***************************************************************************)
\* the loop keeps no record of the SDK's answers and of the calls made
forget(frame) == [frame EXCEPT !.ans = NoAns, !.result.calls = << >>]

\* the frame of the planLiquidity call rebalance is waiting for: the call
\* itself (up to its first await) when none of its SDK calls has resolved
Frame(availableA, availableB, allowSwap) ==
  IF pl.at = "estB1" THEN planLiquidity(availableA, availableB, allowSwap) ELSE pl

\* line 316
skipDepositBothZero(plan) == plan.depositA = 0 /\ plan.depositB = 0
skipDeposit(plan) == plan.depositA = 0 \/ plan.depositB = 0

\* lines 316-338 for the final plan
Finish(r, plan) ==
  IF skipDeposit(plan)
    THEN pc' = "loop" /\ idx' = idx + 1 /\ tx' = NoTx
    ELSE pc' = "tx_payload" /\ idx' = idx /\ tx' = DepositTx(r, plan)

\* line 291: one awaited SDK call of planLiquidity(availableA, availableB,
\* baseParams, true) resolves or rejects; when the function returns,
\* lines 292-310 up to the next await
PlanFirst ==
  /\ pc = "plan1"
  /\ \E response \in Responses(Frame(rb.availableA, rb.availableB, TRUE).at) :
       LET next == planStep(Frame(rb.availableA, rb.availableB, TRUE), response)
           plan == next.result
       IN  IF ~next.called
             THEN /\ pl' = forget(next)
                  /\ UNCHANGED <<pc, idx, rb, tx, cycleFailed, stranded, settled>>
             ELSE /\ pl' = NoPl
                  /\ IF plan.status = "ok"
                       THEN /\ rb' = [rb EXCEPT !.initialPlan = Returned(plan),
                                                !.plan = Returned(plan), !.plans = 1,
                                                !.postSwapA = rb.availableA,
                                                !.postSwapB = rb.availableB]
                            /\ IF plan.swapPlan.present
                                 THEN /\ pc' = "tx_payload" /\ idx' = idx
                                      /\ tx' = SwapTx(rb, plan.swapPlan)
                                 ELSE Finish(rb, plan)
                            /\ UNCHANGED <<cycleFailed, stranded, settled>>
                       ELSE /\ Throw
                            /\ idx' = idx
  /\ UNCHANGED <<poolTick, positions, inflight, orphaned, snapshot, txs, evaluated, rg>>

\* line 313: one awaited SDK call of planLiquidity(postSwapA, postSwapB,
\* baseParams, false) resolves or rejects; when the function returns,
\* lines 316-337 up to the next await
PlanFinal ==
  /\ pc = "plan2"
  /\ \E response \in Responses(Frame(rb.postSwapA, rb.postSwapB, FALSE).at) :
       LET next == planStep(Frame(rb.postSwapA, rb.postSwapB, FALSE), response)
           plan == next.result
       IN  IF ~next.called
             THEN /\ pl' = forget(next)
                  /\ UNCHANGED <<pc, idx, rb, tx, cycleFailed, stranded, settled>>
             ELSE /\ pl' = NoPl
                  /\ IF plan.status = "ok"
                       THEN /\ rb' = [rb EXCEPT !.plan = Returned(plan), !.plans = 2]
                            /\ Finish(rb, plan)
                            /\ UNCHANGED <<cycleFailed, stranded, settled>>
                       ELSE /\ Throw
                            /\ idx' = idx
  /\ UNCHANGED <<poolTick, positions, inflight, orphaned, snapshot, txs, evaluated, rg>>

(***************************************************************************)
(* sleep(POLL_INTERVAL_MS), line 361, and the next iteration of while(true)*)
(***************************************************************************)
Sleep ==
  /\ pc = "sleep"
  /\ pc' = "fetch"
  /\ poolTick' \in PoolTicks        \* the market has moved meanwhile
  /\ \E resolved \in BOOLEAN :      \* a pending transaction may have resolved
       orphaned' = (orphaned /\ ~resolved)
  /\ snapshot' = << >> /\ idx' = 0 /\ rb' = NoRb /\ tx' = NoTx /\ txs' = NoTxs
  /\ cycleFailed' = FALSE /\ evaluated' = {}
  /\ settled' = IF poolTick' = poolTick
                    THEN [settled EXCEPT !.past = settled.ids # {}]
                    ELSE NoSettled
  /\ UNCHANGED <<positions, inflight, stranded, pl, rg>>

Program ==
  \/ FetchPositions \/ LoopStep \/ RebalanceStart
  \/ TxPayload \/ TxBuild \/ TxSubmit \/ TxWait
  \/ PlanFirst \/ PlanFinal \/ Sleep

Next == Program

Spec == Init /\ [][Next]_vars

FairSpec == Spec /\ WF_vars(Program)

(***************************************************************************)
(* planLiquidity on its own: any balances, either allowSwap, any answers.  *)
(***************************************************************************)
NoVenue == poolTick = 500 /\ positions = << >>

PlanInit ==
  /\ NoVenue /\ LoopIdle /\ rg = NoRg
  /\ \E a, b \in Amounts, allowSwap \in BOOLEAN : pl = planLiquidity(a, b, allowSwap)

\* one awaited SDK call of planLiquidity resolves or rejects
PlanCall ==
  /\ ~pl.called
  /\ \E response \in Responses(pl.at) : pl' = planStep(pl, response)
  /\ UNCHANGED <<venueVars, loopVars, rg>>

SpecPlan == PlanInit /\ [][PlanCall]_vars

(***************************************************************************)
(* computeTickRange on its own: any tick, fee tier and half width; the     *)
(* function is applied twice to the same arguments.                        *)
(***************************************************************************)
RangeInit ==
  /\ NoVenue /\ LoopIdle /\ pl = NoPl
  /\ \E t \in -MaxTick .. MaxTick, f \in FeeTierIndexes, h \in 0 .. MaxHalfWidth :
       rg = [NoRg EXCEPT !.currentTick = t, !.feeTierIndex = f, !.halfWidth = h]

RangeCall ==
  /\ rg.calls = 0
  /\ LET r == computeTickRange(rg.currentTick, rg.feeTierIndex, rg.halfWidth)
     IN  rg' = [rg EXCEPT !.calls = 1, !.first = r, !.last = r]
  /\ UNCHANGED <<venueVars, loopVars, pl>>

RangeRecall ==
  /\ rg.calls = 1
  /\ rg' = [rg EXCEPT !.calls = 2,
              !.last = computeTickRange(rg.currentTick, rg.feeTierIndex, rg.halfWidth)]
  /\ UNCHANGED <<venueVars, loopVars, pl>>

\* the position the deposit opens on a range, as the loop later sees it
OpenedOn(tickLower, tickUpper, currentTick, feeTierIndex) ==
  IndexedPosition(VenuePosition(0, TARGET_POOL_ID, 7, <<tickLower, tickUpper>>),
                  TRUE, currentTick, feeTierIndex)

\* isOutOfRange of the position opened on the computed range, same tick
RangeOpenCheck ==
  /\ rg.calls >= 1 /\ ~rg.checked
  /\ LET opened == OpenedOn(rg.first.lower, rg.first.upper,
                            rg.currentTick, rg.feeTierIndex)
     IN  rg' = [rg EXCEPT !.checked = TRUE,
                          !.tickLower = rg.first.lower,
                          !.tickUpper = rg.first.upper,
                          !.outOfRange = isOutOfRange(opened, opened.pool[1])]
  /\ UNCHANGED <<venueVars, loopVars, pl>>

RangeNext == RangeCall \/ RangeRecall \/ RangeOpenCheck

SpecRange == RangeInit /\ [][RangeNext]_vars

(***************************************************************************)
(* isOutOfRange on its own: a position on any range tickLower < tickUpper  *)
(* against any pool tick.                                                  *)
(***************************************************************************)
OutOfRangeInit ==
  /\ NoVenue /\ LoopIdle /\ pl = NoPl
  /\ \E t \in -MaxTick .. MaxTick, lo \in -MaxTick .. MaxTick, hi \in -MaxTick .. MaxTick :
       /\ lo < hi
       /\ rg = [NoRg EXCEPT !.currentTick = t, !.tickLower = lo, !.tickUpper = hi]

OutOfRangeCall ==
  /\ ~rg.checked
  /\ LET position == OpenedOn(rg.tickLower, rg.tickUpper, rg.currentTick, 1)
     IN  rg' = [rg EXCEPT !.checked = TRUE,
                          !.outOfRange = isOutOfRange(position, position.pool[1])]
  /\ UNCHANGED <<venueVars, loopVars, pl>>

SpecOutOfRange == OutOfRangeInit /\ [][OutOfRangeCall]_vars

(***************************************************************************)
(*                              Properties                                 *)
(***************************************************************************)

\* the working balances of a returned plan, from the inputs and the swap
WorkingA == pl.availableA - pl.result.swapPlan.amountIn
WorkingB == pl.availableB + pl.result.swapPlan.expectedOut

\* C1: every plan planLiquidity returns has depositA <= workingA and
\* depositB <= workingB, the working balances being the available balances
\* after the planned swap.  The code breaks it: when the B estimate exceeds
\* workingB, depositA is the answer of estCurrencyAAmountFromB, unclamped.
C1_DepositWithinWorking ==
  (pl.called /\ pl.result.status = "ok") =>
     /\ pl.result.depositA <= WorkingA
     /\ pl.result.depositB <= WorkingB

\* C2: with allowSwap and requiredB > availableB, a quote whose amountIn is
\* >= availableA makes planLiquidity throw the insufficient-balance error:
\* nothing is planned and the quote is the last call made.
C2_InsufficientBalanceThrows ==
  (/\ pl.called /\ pl.allowSwap
   /\ pl.ans.failAt \notin {"estB1", "quote"}
   /\ pl.ans.estB1 > pl.availableB
   /\ pl.ans.amountIn >= pl.availableA)
  => /\ pl.result.status = "insufficient"
     /\ ~pl.result.swapPlan.present
     /\ pl.result.calls = << Call("estBFromA", pl.availableA),
                             Call("quote", pl.ans.estB1 - pl.availableB) >>

C2_Witness ==
  /\ pl.called /\ pl.allowSwap /\ pl.ans.failAt = "none"
  /\ pl.ans.estB1 > pl.availableB
  /\ pl.availableA > 0 /\ pl.ans.amountIn = pl.availableA
  /\ pl.result.status = "insufficient"

\* C3: with allowSwap = FALSE planLiquidity returns no swapPlan and never
\* calls the swap quote, whatever the balances and the estimator answers.
C3_NoSwapWhenDisallowed ==
  (pl.called /\ ~pl.allowSwap) =>
     /\ ~pl.result.swapPlan.present
     /\ \A i \in 1 .. Len(pl.result.calls) : pl.result.calls[i].svc # "quote"

C3_Witness ==
  /\ pl.called /\ ~pl.allowSwap /\ pl.result.status = "ok"
  /\ pl.ans.estB1 > pl.availableB
  /\ pl.ans.amountIn < pl.availableA

\* the plan rebalance acts on is final: planLiquidity has returned and no
\* swap is left to run
FinalPlan == rb.active /\ rb.plans >= 1 /\ ~rb.plan.swapPlan.present

\* C4: no deposit transaction carries a zero amount; when the final plan has
\* depositA = 0 or depositB = 0, rebalance has returned to the loop of main
\* with no deposit transaction built or submitted and without an error.
C4_NoZeroDeposit ==
  /\ tx.kind = "deposit" => tx.amountA > 0 /\ tx.amountB > 0
  /\ (FinalPlan /\ (rb.plan.depositA = 0 \/ rb.plan.depositB = 0)) =>
        /\ pc = "loop"
        /\ tx = NoTx
        /\ txs.deposit = "none"
        /\ ~cycleFailed

C4_Witness ==
  /\ FinalPlan /\ rb.plans = 2
  /\ txs.swap = "confirmed"
  /\ rb.plan.depositA > 0 /\ rb.plan.depositB = 0
  /\ pc = "loop"

\* C5: inside one rebalance the withdraw transaction (if any) is confirmed
\* before planLiquidity is first called, the swap transaction (if any) is
\* confirmed before planLiquidity is called for the final plan, and a
\* deposit transaction is built only from a returned final plan whose two
\* deposit amounts are non-zero.
C5_StepOrder ==
  rb.active =>
    /\ (pc = "plan1" \/ rb.plans >= 1) => txs.withdraw \in {"none", "confirmed"}
    /\ txs.withdraw # "none" =>
          shouldWithdraw(rb.deltaLiquidity, rb.availableA, rb.availableB)
    /\ txs.swap # "none" => rb.plans >= 1 /\ rb.initialPlan.swapPlan.present
    /\ (pc = "plan2" \/ rb.plans = 2) =>
          rb.initialPlan.swapPlan.present /\ txs.swap = "confirmed"
    /\ (tx.kind = "deposit" \/ txs.deposit # "none") =>
          /\ FinalPlan
          /\ rb.initialPlan.swapPlan.present => rb.plans = 2
          /\ rb.plan.depositA > 0 /\ rb.plan.depositB > 0
          /\ tx.amountA = rb.plan.depositA /\ tx.amountB = rb.plan.depositB

C5_Witness ==
  /\ rb.active /\ pc = "tx_wait" /\ tx.kind = "deposit"
  /\ txs.withdraw = "confirmed" /\ txs.swap = "confirmed"
  /\ txs.deposit = "submitted" /\ rb.plans = 2

\* a deposit transaction of the rebalance of position p has been submitted
DepositSubmittedFor(p) ==
  /\ rb.active /\ rb.position.objectId = p
  /\ txs.deposit \in {"submitted", "confirmed"}

\* C6: once the withdrawal of a position is confirmed and its rebalance has
\* thrown, every later poll cycle either fails again or leads to a deposit
\* transaction for that position's funds.  The code never looks at the
\* wallet: the withdrawn position now has zero liquidity and is skipped.
C6_StrandedFundsRedeployed ==
  \A p \in 1 .. MaxPositions :
     (p \in stranded /\ pc = "fetch") ~> (DepositSubmittedFor(p) \/ cycleFailed)

\* C7: a throw anywhere in a cycle takes main to the sleep at the end of
\* the loop body, from the sleep the only step starts the next cycle, and
\* in every state main has a step to take (there is no terminal state).
C7_LoopSurvivesFailure ==
  /\ [][(cycleFailed' /\ ~cycleFailed) => pc' = "sleep"]_vars
  /\ [][pc = "sleep" => (pc' = "fetch" /\ ~cycleFailed')]_vars
  /\ [](ENABLED Program)

C7_Witness ==
  /\ pc = "sleep" /\ cycleFailed
  /\ txs.withdraw = "confirmed" /\ txs.deposit = "failed"

\* the transactions of the owner that are submitted and not yet confirmed
\* (or failed): the one awaited, and at least one more when a wait has
\* timed out and its transaction is still pending
Unconfirmed == inflight + (IF orphaned THEN 1 ELSE 0)

\* what the sequential design does give: at most one transaction is awaited,
\* and while it is awaited nothing else runs (no planning, no other
\* transaction, no other position, no other cycle)
OneTransactionAwaited ==
  /\ inflight \in {0, 1}
  /\ inflight = 1 <=> pc = "tx_wait"

\* C8: at most one transaction of the owner is submitted-but-unconfirmed at
\* any time.  The code breaks it: a wait that times out throws, the cycle
\* ends, and a later cycle submits the next transaction while the first is
\* still pending.
C8_OneTransactionInFlight == Unconfirmed <= 1

\* the entry of this cycle's snapshot a transaction belongs to
Eligible(position) ==
  /\ position.pool # << >>
  /\ position.currentAmount # 0
  /\ isOutOfRange(position, position.pool[1])

\* C9: every transaction of a cycle belongs to a position that the cycle's
\* snapshot shows with non-zero liquidity and out of range; isOutOfRange is
\* never applied to a position whose liquidity is zero.
C9_OnlyEligiblePositions ==
  /\ (tx.kind # "none" \/ rb.active) =>
        \E i \in 1 .. Len(snapshot) :
           /\ snapshot[i].objectId = rb.position.objectId
           /\ tx.kind # "none" => tx.positionId = snapshot[i].objectId
           /\ Eligible(snapshot[i])
  /\ \A i \in 1 .. Len(snapshot) :
        snapshot[i].objectId \in evaluated => snapshot[i].currentAmount # 0

C9_Witness ==
  /\ inflight = 1 /\ tx.kind = "withdraw" /\ tx.positionId = 2
  /\ Len(snapshot) = 2 /\ snapshot[1].currentAmount = 0
  /\ evaluated = {2}

\* C10: for every tick (negative ones too), spacing > 0 and half width > 0,
\* computeTickRange returns lower < upper, both multiples of the spacing,
\* with the snapped anchor floor(currentTick / spacing) * spacing between
\* them; a second call with the same arguments returns the same range.
C10_RangeWellFormed ==
  (rg.calls >= 1 /\ rg.halfWidth > 0) =>
     LET spacing == tickSpacing(rg.feeTierIndex)
         anchor  == (rg.currentTick \div spacing) * spacing
     IN  /\ spacing > 0
         /\ rg.first.lower < rg.first.upper
         /\ rg.first.lower % spacing = 0
         /\ rg.first.upper % spacing = 0
         /\ rg.first.lower <= anchor /\ anchor <= rg.first.upper
         /\ rg.last = rg.first

C10_Witness ==
  /\ rg.calls = 2 /\ rg.halfWidth = 2 /\ rg.currentTick = -7
  /\ rg.feeTierIndex = 1
  /\ rg.first = [lower |-> -30, upper |-> 10]


\* C11: with halfWidth = 0 computeTickRange never returns lower = upper: it
\* returns exactly (rounded - spacing, rounded + spacing), rounded being
\* floor(currentTick / spacing) * spacing.
C11_ZeroWidthWidened ==
  (rg.calls >= 1 /\ rg.halfWidth = 0) =>
     LET spacing == tickSpacing(rg.feeTierIndex)
         anchor  == (rg.currentTick \div spacing) * spacing
     IN  /\ rg.first.lower # rg.first.upper
         /\ rg.first = [lower |-> anchor - spacing, upper |-> anchor + spacing]

C11_Witness ==
  /\ rg.calls >= 1 /\ rg.halfWidth = 0 /\ rg.currentTick = -7
  /\ rg.feeTierIndex = 4
  /\ rg.first = [lower |-> -40, upper |-> 0]


\* C12: isOutOfRange is true exactly when currentTick <= tickLower or
\* currentTick >= tickUpper: true at each boundary and beyond it, false
\* strictly between the boundaries.
C12_OutOfRangeBoundaries ==
  rg.checked =>
     /\ rg.outOfRange <=> (rg.currentTick <= rg.tickLower \/ rg.currentTick >= rg.tickUpper)
     /\ rg.currentTick = rg.tickLower => rg.outOfRange
     /\ rg.currentTick = rg.tickUpper => rg.outOfRange
     /\ (rg.tickLower < rg.currentTick /\ rg.currentTick < rg.tickUpper) => ~rg.outOfRange

C12_Witness ==
  /\ rg.checked /\ rg.outOfRange
  /\ rg.tickLower = -3 /\ rg.tickUpper = 5 /\ rg.currentTick = 5

\* C18: for every tick, spacing and halfWidth >= 0 the range computeTickRange
\* returns strictly contains the tick, so a position opened on that range is
\* not out of range at the same tick.
C18_RangeContainsTick ==
  /\ rg.calls >= 1 =>
       /\ rg.first.lower < rg.currentTick
       /\ rg.currentTick < rg.first.upper
  /\ (rg.calls >= 1 /\ rg.checked) =>
       /\ rg.tickLower = rg.first.lower /\ rg.tickUpper = rg.first.upper
       /\ ~rg.outOfRange

C18_Witness ==
  /\ rg.calls >= 1 /\ rg.checked /\ ~rg.outOfRange
  /\ rg.currentTick = -7 /\ rg.feeTierIndex = 4 /\ rg.halfWidth = 1
  /\ rg.tickLower = -40 /\ rg.tickUpper = 0


\* C13: planLiquidity with allowSwap, requiredB > availableB and a quote
\* whose amountIn < availableA (every service answering): the swapPlan is
\* exactly the quoted amountIn, amountOut and route, the working balances are
\* (availableA - amountIn, availableB + amountOut), and when the re-estimate
\* from workingA is <= workingB the plan is depositA = workingA, depositB =
\* the re-estimate, without any estCurrencyAAmountFromB query.
C13_SwapPlanFromQuote ==
  (/\ pl.called /\ pl.allowSwap
   /\ pl.ans.failAt \notin {"estB1", "quote"}
   /\ pl.ans.estB1 > pl.availableB
   /\ pl.ans.amountIn < pl.availableA) =>
     LET wA == pl.availableA - pl.ans.amountIn
         wB == pl.availableB + pl.ans.amountOut
     IN  /\ pl.result.status # "insufficient"
         /\ pl.result.calls[2] = Call("quote", pl.ans.estB1 - pl.availableB)
         /\ pl.result.calls[3] = Call("estBFromA", wA)
         /\ pl.result.status = "ok" =>
              /\ pl.result.swapPlan =
                   [present |-> TRUE, amountIn |-> pl.ans.amountIn,
                    expectedOut |-> pl.ans.amountOut, path |-> pl.ans.path]
              /\ pl.result.workingA = wA
              /\ pl.result.workingB = wB
         /\ (pl.ans.failAt # "estB2" /\ pl.ans.estB2 <= wB) =>
              /\ pl.result.status = "ok"
              /\ pl.result.depositA = wA
              /\ pl.result.depositB = pl.ans.estB2
              /\ Len(pl.result.calls) = 3
              /\ \A i \in 1 .. Len(pl.result.calls) :
                   pl.result.calls[i].svc # "estAFromB"

C13_Witness ==
  /\ pl.called /\ pl.allowSwap /\ pl.result.status = "ok"
  /\ pl.availableA = 2 /\ pl.availableB = 0
  /\ pl.ans.estB1 = 1 /\ pl.ans.amountIn = 1 /\ pl.ans.amountOut = 1
  /\ pl.ans.estB2 = 1
  /\ pl.result.swapPlan.present /\ pl.result.swapPlan.path = "viaHop"
  /\ pl.result.depositA = 1 /\ pl.result.depositB = 1


\* C20: swaps are only planned from A into B.  With availableA = 0, whatever
\* availableB, allowSwap and the estimator and quote answer, planLiquidity
\* never returns a swapPlan: it throws the insufficient-balance error when a
\* swap would be needed, and otherwise returns a plan without a swap.
C20_NoSwapWithoutA ==
  (pl.called /\ pl.availableA = 0) =>
     /\ ~pl.result.swapPlan.present
     /\ pl.result.swapPlan = NoSwapPlan
     /\ (/\ pl.allowSwap /\ pl.ans.failAt \notin {"estB1", "quote"}
         /\ pl.ans.estB1 > pl.availableB) => pl.result.status = "insufficient"
     /\ pl.result.status = "ok" =>
          (~pl.allowSwap \/ pl.ans.estB1 <= pl.availableB)

C20_Witness ==
  /\ pl.called /\ pl.availableA = 0 /\ pl.availableB = 1 /\ pl.allowSwap
  /\ pl.ans.estB1 = 2 /\ pl.ans.amountIn = 0 /\ pl.ans.failAt = "none"
  /\ pl.result.status = "insufficient"
  /\ Len(pl.result.calls) = 2


\* C15: when the first plan contains a swap, the orchestrator submits one
\* swap transaction with the planned amountIn and route, and the final plan
\* is what planLiquidity(allowSwap = false) returns on (availableA -
\* amountIn, availableB + expectedOut), both taken from the first plan; when
\* the first plan has no swap it is the final plan and no swap transaction
\* is submitted.  The deposit carries the amounts of the final plan.
C15_SwapThenReplan ==
  rb.active =>
    /\ tx.kind = "swap" =>
         /\ rb.plans = 1 /\ rb.initialPlan.swapPlan.present
         /\ tx.amountA = rb.initialPlan.swapPlan.amountIn
         /\ tx.amountB = rb.initialPlan.swapPlan.expectedOut
         /\ tx.path = rb.initialPlan.swapPlan.path
         /\ pc \in {"tx_payload", "tx_build", "tx_submit"} => txs.swap = "none"
    /\ pc = "plan2" => txs.swap = "confirmed" /\ rb.plans = 1
    /\ rb.plans = 2 =>
         /\ rb.initialPlan.swapPlan.present
         /\ txs.swap = "confirmed" /\ tx.kind # "swap"
         /\ rb.postSwapA = rb.availableA - rb.initialPlan.swapPlan.amountIn
         /\ rb.postSwapB = rb.availableB + rb.initialPlan.swapPlan.expectedOut
         /\ ~rb.plan.swapPlan.present
         /\ rb.plan.depositB <= rb.postSwapB
    /\ (pc = "plan1" /\ pl # NoPl) =>
         /\ pl.availableA = rb.availableA /\ pl.availableB = rb.availableB
         /\ pl.allowSwap
    /\ (pc = "plan2" /\ pl # NoPl) =>
         /\ pl.availableA = rb.postSwapA /\ pl.availableB = rb.postSwapB
         /\ ~pl.allowSwap /\ ~pl.result.swapPlan.present
         /\ pl.result.workingA = rb.postSwapA /\ pl.result.workingB = rb.postSwapB
    /\ (rb.plans >= 1 /\ ~rb.initialPlan.swapPlan.present) =>
         /\ rb.plans = 1 /\ rb.plan = rb.initialPlan
         /\ txs.swap = "none" /\ tx.kind # "swap"
    /\ tx.kind = "deposit" =>
         /\ tx.amountA = rb.plan.depositA /\ tx.amountB = rb.plan.depositB
         /\ rb.initialPlan.swapPlan.present <=> rb.plans = 2

C15_Witness ==
  /\ rb.active /\ rb.plans = 2 /\ tx.kind = "deposit"
  /\ txs.swap = "confirmed" /\ txs.deposit = "confirmed"
  /\ rb.initialPlan.swapPlan.amountIn = 1 /\ rb.availableA = 2
  /\ rb.postSwapA = 1 /\ rb.plan.depositA = 1


\* C16: failures are handled per cycle.  Once something inside the try block
\* has thrown, the cycle only sleeps: the positions after the failing one in
\* the fetched order are not evaluated, none of them is rebalanced and no
\* transaction is prepared or awaited until the next cycle.  At any time
\* the positions beyond the loop index are unevaluated and a transaction in
\* preparation belongs to the position at the loop index.
C16_FailureAbortsCycle ==
  /\ cycleFailed =>
       /\ pc = "sleep" /\ ~rb.active /\ tx = NoTx /\ inflight = 0
       /\ \A i \in 1 .. Len(snapshot) :
            i > idx => snapshot[i].objectId \notin evaluated
  /\ \A i \in 1 .. Len(snapshot) :
       i > idx => /\ snapshot[i].objectId \notin evaluated
                  /\ (rb.active => rb.position.objectId # snapshot[i].objectId)
  /\ pc \in {"tx_payload", "tx_build", "tx_submit", "tx_wait"} =>
       /\ idx \in 1 .. Len(snapshot)
       /\ tx.positionId = snapshot[idx].objectId

C16_Witness ==
  /\ cycleFailed /\ pc = "sleep" /\ Len(snapshot) = 2 /\ idx = 1
  /\ txs.withdraw = "confirmed" /\ txs.swap = "failed"
  /\ snapshot[1].objectId \in evaluated
  /\ snapshot[2].pool # << >> /\ snapshot[2].currentAmount # 0
  /\ isOutOfRange(snapshot[2], snapshot[2].pool[1])
  /\ snapshot[2].objectId \notin evaluated


\* C17: a rebalance submits a withdraw transaction exactly when the
\* position's liquidity is > 0 and at least one withdrawable amount is
\* non-zero; the withdrawal asks for the position's whole current liquidity
\* with the owner as recipient; with both withdrawable amounts zero nothing
\* is withdrawn and planning still runs, on (0, 0).
C17_WithdrawWhenWithdrawable ==
  rb.active =>
    LET withdrawable == /\ rb.position.currentAmount > 0
                        /\ (rb.availableA # 0 \/ rb.availableB # 0)
    IN  /\ tx.kind = "withdraw" =>
             /\ withdrawable
             /\ tx.positionId = rb.position.objectId
             /\ tx.deltaLiquidity = rb.position.currentAmount
             /\ tx.amountA = rb.availableA /\ tx.amountB = rb.availableB
             /\ tx.recipient = "owner"
        /\ withdrawable =>
             \/ tx.kind = "withdraw" /\ pc \in {"tx_payload", "tx_build", "tx_submit"}
                                     /\ txs.withdraw = "none"
             \/ tx.kind = "withdraw" /\ pc = "tx_wait" /\ txs.withdraw = "submitted"
             \/ txs.withdraw = "confirmed"
        /\ ~withdrawable =>
             /\ txs.withdraw = "none" /\ tx.kind # "withdraw"
             /\ pc \in {"plan1", "loop"}
             /\ pc = "loop" => rb.plans = 1
        /\ rb.plans >= 1 => (withdrawable <=> txs.withdraw = "confirmed")

C17_Witness ==
  /\ rb.active /\ tx.kind = "withdraw" /\ txs.withdraw = "submitted"
  /\ rb.availableA = 0 /\ rb.availableB = 1
  /\ tx.deltaLiquidity = 7 /\ rb.position.currentAmount = 7


\* what the owner holds from this rebalance: the withdrawn amounts, less the
\* A the executed swap consumed, plus the B it paid out
HeldA ==
  rb.availableA
    - (IF txs.swap = "confirmed" THEN rb.initialPlan.swapPlan.amountIn ELSE 0)
HeldB ==
  rb.availableB + (IF txs.swap = "confirmed" THEN rb.delivered ELSE 0)

\* C14: the deposit the orchestrator submits never asks for more of either
\* token than the owner holds from this rebalance, also when the swap paid
\* out less than the quoted amountOut within the slippage tolerance.  The
\* code breaks it twice: the final plan is computed on availableB +
\* expectedOut, the quote, whatever the swap paid out; and the cap branch of
\* planLiquidity returns depositA unclamped (C1).
C14_DepositWithinHeld ==
  (rb.active /\ tx.kind = "deposit") =>
     /\ tx.amountA <= HeldA
     /\ tx.amountB <= HeldB


TxStages == {"tx_payload", "tx_build", "tx_submit", "tx_wait"}

\* C19 as stated: after a rebalance has ended in a confirmed deposit, and
\* while the pool tick does not change, no later poll cycle submits any
\* transaction.  It fails when the pool holds another position that is
\* still out of range: a later cycle rebalances that one at the same tick.
C19_NoLaterTransaction ==
  settled.past =>
    /\ txs.withdraw = "none" /\ txs.swap = "none" /\ txs.deposit = "none"
    /\ pc \notin TxStages

\* C19, amended: after a position's rebalance has ended in a confirmed
\* deposit, and while the pool tick does not change, no transaction is
\* prepared or submitted for that position or for the position the deposit
\* opened, nor is either of them handed to rebalance: the old position has
\* zero liquidity and the new one strictly contains the pool tick.
C19_SettledPositionsLeftAlone ==
  /\ \A id \in settled.ids :
       /\ id \in 1 .. Len(positions)
       /\ \/ positions[id].currentAmount = 0
          \/ /\ positions[id].tickLower < poolTick
             /\ poolTick < positions[id].tickUpper
  /\ pc \in TxStages => tx.positionId \notin settled.ids
  /\ pc \in TxStages \cup {"rebalance", "plan1", "plan2"} =>
       snapshot[idx].objectId \notin settled.ids

\* a later cycle, same tick: the old and the new position have been passed
\* over by the loop
C19_Witness ==
  /\ settled.past /\ settled.ids = {2, 3} /\ pc = "sleep" /\ ~cycleFailed
  /\ poolTick = 615
  /\ \E i, j \in 1 .. Len(snapshot) :
       /\ i < j
       /\ snapshot[i].objectId = 2 /\ snapshot[i].currentAmount = 0
       /\ snapshot[j].objectId = 3 /\ snapshot[j].currentAmount # 0
       /\ 3 \in evaluated /\ 2 \notin evaluated

====
